---- MODULE Spec2Model ----
(***************************************************************************)
(* PdfExporter of desktop-tool/src/pdf_maker.py: concurrent acquisition of *)
(* the card images, conditioning of the front images, and the two layouts  *)
(* (export: one card face per page, batched into numbered files;           *)
(* export_a3: a 6 x 3 grid of fronts per A3 page).                         *)
(*                                                                         *)
(* Lengths of the A3 layout are kept in half millimetres, so that the gap  *)
(* of 0.5 mm is the integer gap2 = 1 and every coordinate is exact.        *)
(***************************************************************************)
EXTENDS Integers, Sequences, FiniteSets, TLC

\* ---------------------------------------------------------------- bounds
MaxSlots == 3
MaxFronts == 2
MaxBacks == 1
MaxCardsPerFile == 3
MaxGridSlots == 37
MaxFailures == 1
THREADS == 2
WBase == 600
HBase == 860
WSpan == 45
HSpan == 42

\* ------------------------------------------------- constants of the code
image_w == 63
image_h == 88
top == 15
left == 20
gap2 == 1
GridCols == 6
GridCells == 18

\* The back the order designates for slots that name none (CardOrder's
\* default back); the exporter itself never reads it.
DefaultBack == 0

\* self.pdf before generate_pdf: None
NoPdf == [format |-> "None", pages |-> <<>>]
\* No inspection made yet.
NotInspected == [geo |-> <<>>, flags |-> <<>>]
NoFile == <<>>
EmptyMap == [s \in {} |-> <<>>]

\* The geometries (width, height in pixels) a downloaded front may have.
Geometries == {<<630, 880>>, <<600, 880>>, <<600, 807>>}
Extensions == {"png", "jpg"}

VARIABLES
  fronts,                   \* order.fronts: slot -> front image id
  backs,                    \* order.backs: slot -> back image id (slots that name one)
  remote,                   \* front image id -> [ext, geo] the download yields
  failing,                  \* the cards whose download fails in this run
  separate_faces,
  number_of_cards_per_file,
  pc,
  queue,                    \* the pool's work queue
  running,                  \* the cards a worker is downloading
  fetched,                  \* card -> "ok" | "failed", once its download ended
  fetchCount,               \* card -> number of downloads started
  disk,                     \* front file path -> geometry, or NoFile
  paths_by_slot,
  todo,                     \* the slots the running loop still has to visit
  i,                        \* export_a3's position counter
  pdf,
  file_num,
  saved,                    \* the sequence of pdf.output calls
  converted,                \* front image id -> number of magick conversions
  reshaped,                 \* front image id -> number of cut_and_reshape runs
  preparadness_check_result, \* the last inspection: [geo, flags]
  outcome

vars == <<fronts, backs, remote, failing, separate_faces, number_of_cards_per_file,
          pc, queue, running, fetched, fetchCount, disk, paths_by_slot, todo, i,
          pdf, file_num, saved, converted, reshaped, preparadness_check_result,
          outcome>>

orderVars == <<fronts, backs, remote, failing, separate_faces>>
poolVars == <<queue, running, fetched, fetchCount>>
layoutVars == <<todo, i, pdf, file_num, saved>>
condVars == <<converted, reshaped, preparadness_check_result>>

\* ---------------------------------------------------------------- helpers
Min(S) == CHOOSE x \in S : \A y \in S : x <= y

RECURSIVE sorted(_)
\* Python's sorted() over a set of integers.
sorted(S) == IF S = {} THEN <<>> ELSE <<Min(S)>> \o sorted(S \ {Min(S)})

RECURSIVE Flatten(_)
Flatten(ss) == IF ss = <<>> THEN <<>> ELSE Head(ss) \o Flatten(Tail(ss))

Range(f) == {f[x] : x \in DOMAIN f}

FrontIds == Range(fronts)
BackIds == Range(backs)
FrontCard(id) == <<"fronts", id>>
BackCard(id) == <<"backs", id>>
FrontCards == {FrontCard(id) : id \in FrontIds}
BackCards == {BackCard(id) : id \in BackIds}
Cards == FrontCards \cup BackCards
CardSlots(c) == IF c[1] = "fronts" THEN {s \in DOMAIN fronts : fronts[s] = c[2]}
                ELSE {s \in DOMAIN backs : backs[s] = c[2]}

\* card.file_path
FrontPath(id) == <<"fronts", id, remote[id].ext>>
BackPath(id) == <<"backs", id, "png">>
file_path(c) == IF c[1] = "fronts" THEN FrontPath(c[2]) ELSE BackPath(c[2])

\* ----------------------------------------------------------- conditioning
Abs(x) == IF x < 0 THEN -x ELSE x

\* n / d rounded to the nearest integer, halves up (ImageMagick's floor(x + 0.5)).
RoundDiv(n, d) == (2 * n + d) \div (2 * d)

\* round(n / d, 1) in tenths, truncating instead of rounding.
round1_truncating(n, d) == (10 * n) \div d

\* Python's round(n / d, 1), in tenths: to the nearest tenth, an exact half to
\* the even tenth.
round1(n, d) ==
  LET q == (10 * n) \div d
      r == (10 * n) % d
  IN  IF 2 * r > d \/ (2 * r = d /\ q % 2 = 1) THEN q + 1 ELSE q

\* images_havent_been_prepared: <<need_downsize, need_reshape, need_compression>>
\* from identify's output for the file; a file that is not there prints no
\* Geometry line.
images_havent_been_prepared(geo) ==
  IF geo = NoFile THEN <<FALSE, TRUE, FALSE>>
  ELSE LET w_rel == round1(geo[1], image_w)
           h_rel == round1(geo[2], image_h)
       IN  <<FALSE, ~(w_rel = h_rel), FALSE>>

\* mogrify -shave "2.8%x2.8%" -gravity center -crop "63:88": 2.8 % of the width
\* off the left and the right, 2.8 % of the height off the top and the bottom,
\* then the largest centred region of aspect 63:88.
cut_and_reshape(geo) ==
  IF geo = NoFile THEN NoFile
  ELSE LET w2 == geo[1] - 2 * RoundDiv(28 * geo[1], 1000)
           h2 == geo[2] - 2 * RoundDiv(28 * geo[2], 1000)
       IN  IF image_w * h2 >= image_h * w2
           THEN <<w2, RoundDiv(image_h * w2, image_w)>>
           ELSE <<RoundDiv(image_w * h2, image_h), h2>>

\* new_jpg_path: the path with its extension replaced by .jpg
new_jpg_path(p) == <<p[1], p[2], "jpg">>

\* convert_to_jpg: the path prepare_images goes on with.
convert_to_jpg_path(p) == IF p[3] = "jpg" THEN p ELSE new_jpg_path(p)

\* convert_to_jpg: whether the magick command runs.
convert_to_jpg_runs(d, p) == p[3] # "jpg" /\ d[new_jpg_path(p)] = NoFile

\* convert_to_jpg: the files after it (magick writes the jpg when it can read p).
convert_to_jpg_disk(d, p) ==
  IF convert_to_jpg_runs(d, p) /\ d[p] # NoFile
  THEN [d EXCEPT ![new_jpg_path(p)] = d[p]]
  ELSE d

\* ------------------------------------------------------------------- Init
PartialFns(S, T) == UNION {[D -> T] : D \in SUBSET S}

CardsOf(fr, bk) == {<<"fronts", fr[s]>> : s \in DOMAIN fr}
                     \cup {<<"backs", bk[s]>> : s \in DOMAIN bk}

\* The state once PdfExporter is constructed (attrs defaults, ask_questions).
InitWith(fr, bk, rem, fail, sf, n) ==
  /\ fronts = fr
  /\ backs = bk
  /\ remote = rem
  /\ failing = fail
  /\ separate_faces = sf
  /\ number_of_cards_per_file = n
  /\ pc = "init"
  /\ queue = <<>>
  /\ running = {}
  /\ fetched = [c \in CardsOf(fr, bk) |-> "pending"]
  /\ fetchCount = [c \in CardsOf(fr, bk) |-> 0]
  /\ disk = [p \in {<<"fronts", fr[s], e>> : s \in DOMAIN fr, e \in Extensions} |-> NoFile]
  /\ paths_by_slot = EmptyMap
  /\ todo = <<>>
  /\ i = 0
  /\ pdf = NoPdf
  /\ file_num = 1
  /\ saved = <<>>
  /\ converted = [id \in Range(fr) |-> 0]
  /\ reshaped = [id \in Range(fr) |-> 0]
  /\ preparadness_check_result = NotInspected
  /\ outcome = "none"

CardSized == [ext |-> "jpg", geo |-> <<630, 880>>]

\* ask_questions: split faces sets one card per file, else the answer, at least 1.
Answers == {<<TRUE, 1>>} \cup {<<FALSE, n>> : n \in 1..MaxCardsPerFile}

\* Orders of any shape: any set of slots has a front, any of them name a back.
InitShapes ==
  \E S \in SUBSET (0..(MaxSlots - 1)) : \E bk \in PartialFns(S, 1..MaxBacks) :
  \E a \in Answers :
    InitWith([s \in S |-> s + 1], bk, [id \in {s + 1 : s \in S} |-> CardSized],
             {}, a[1], a[2])

\* Orders whose slots share fronts, with downloads that fail and fronts of
\* several formats and geometries.
InitShared ==
  \E n \in 0..MaxSlots : \E fr \in [0..(n - 1) -> 1..MaxFronts] :
  \E e \in Extensions : \E g \in Geometries : \E sf \in BOOLEAN :
  \E fail \in SUBSET CardsOf(fr, [s \in {0} \cap DOMAIN fr |-> 1]) :
    /\ Cardinality(fail) <= MaxFailures
    /\ InitWith(fr, [s \in {0} \cap DOMAIN fr |-> 1],
                [id \in Range(fr) |-> [ext |-> e, geo |-> g]], fail, sf,
                IF sf THEN 1 ELSE 2)

\* Orders long enough to fill more than two sheets of the grid.
InitLong ==
  \E n \in 0..MaxGridSlots : \E sf \in BOOLEAN :
    InitWith([s \in 0..(n - 1) |-> s + 1], [s \in {0} \cap 0..(n - 1) |-> 1],
             [id \in 1..n |-> CardSized], {}, sf, IF sf THEN 1 ELSE MaxCardsPerFile)

\* One front of any geometry in a window around the card's 630 x 880.
InitGeometry ==
  \E w \in WBase..(WBase + WSpan) : \E h \in HBase..(HBase + HSpan) :
    InitWith([s \in {0} |-> 1], [s \in {0} |-> 1],
             [id \in {1} |-> [ext |-> "jpg", geo |-> <<w, h>>]], {}, TRUE, 1)

Init == InitShapes \/ InitShared \/ InitLong \/ InitGeometry

\* ------------------------------------------------------------ acquisition
\* CardImageCollection.download_images, for the fronts and then the backs: one
\* download per card is handed to the pool.
download_images ==
  /\ pc = "init"
  /\ queue' = [k \in 1..Cardinality(FrontIds) |-> FrontCard(sorted(FrontIds)[k])]
                \o [k \in 1..Cardinality(BackIds) |-> BackCard(sorted(BackIds)[k])]
  /\ pc' = "download"
  /\ UNCHANGED <<orderVars, number_of_cards_per_file, running, fetched, fetchCount,
                 disk, paths_by_slot, layoutVars, condVars, outcome>>

\* A free worker of the pool takes the next download.
FetchStart ==
  /\ pc = "download"
  /\ queue # <<>>
  /\ Cardinality(running) < THREADS
  /\ running' = running \cup {Head(queue)}
  /\ queue' = Tail(queue)
  /\ fetchCount' = [fetchCount EXCEPT ![Head(queue)] = @ + 1]
  /\ UNCHANGED <<orderVars, number_of_cards_per_file, pc, fetched, disk,
                 paths_by_slot, layoutVars, condVars, outcome>>

\* A download ends: the file is written, or the failure is recorded and the run
\* goes on.
FetchFinish(c) ==
  /\ pc = "download"
  /\ c \in running
  /\ running' = running \ {c}
  /\ fetched' = [fetched EXCEPT ![c] = IF c \in failing THEN "failed" ELSE "ok"]
  /\ disk' = IF c[1] = "fronts" /\ c \notin failing
             THEN [disk EXCEPT ![file_path(c)] = remote[c[2]].geo]
             ELSE disk
  /\ UNCHANGED <<orderVars, number_of_cards_per_file, pc, queue, fetchCount,
                 paths_by_slot, layoutVars, condVars, outcome>>

\* Leaving the with block without waiting for the pool's workers.
PoolShutdownNoWait == TRUE

\* Leaving "with ThreadPoolExecutor(...) as pool": shutdown(wait=True) returns once
\* every submitted download has ended.
PoolShutdownWait == queue = <<>> /\ running = {}

backs_by_slots == [s \in DOMAIN backs |-> BackPath(backs[s])]
fronts_by_slots == [s \in DOMAIN fronts |-> FrontPath(fronts[s])]

\* backs_by_slots.get(slot, backs_by_slots[0]); Python evaluates the default
\* before the call, so it is only defined when slot 0 has a back.
ResolveBack(slot) ==
  IF slot \in DOMAIN backs_by_slots THEN backs_by_slots[slot] ELSE backs_by_slots[0]

\* Whether building paths_by_slot raises KeyError.
ResolveRaises == DOMAIN fronts_by_slots # {} /\ 0 \notin DOMAIN backs_by_slots

\* download_and_collect_images, from the end of the with block on.
download_and_collect_images ==
  /\ pc = "download"
  /\ PoolShutdownWait
  /\ IF ResolveRaises
     THEN /\ pc' = "error"
          /\ outcome' = "KeyError"
          /\ UNCHANGED paths_by_slot
     ELSE /\ pc' = "collected"
          /\ paths_by_slot' = [s \in DOMAIN fronts_by_slots |->
                                 <<ResolveBack(s), fronts_by_slots[s]>>]
          /\ UNCHANGED outcome
  /\ UNCHANGED <<orderVars, number_of_cards_per_file, poolVars, disk, layoutVars,
                 condVars>>

\* The keys of paths_by_slot in insertion order: front card by front card.
PrepareOrder ==
  Flatten([k \in 1..Cardinality(FrontIds) |->
             sorted(CardSlots(FrontCard(sorted(FrontIds)[k])))])

\* execute, after download_and_collect_images: the choice of the layout.
execute ==
  /\ pc = "collected"
  /\ IF separate_faces
     THEN /\ number_of_cards_per_file' = 1
          /\ todo' = PrepareOrder
          /\ pc' = "prepare"
     ELSE /\ todo' = sorted(DOMAIN paths_by_slot)
          /\ pc' = "export"
          /\ UNCHANGED number_of_cards_per_file
  /\ UNCHANGED <<orderVars, poolVars, disk, paths_by_slot, i, pdf, file_num, saved,
                 condVars, outcome>>

\* ----------------------------------------------------------- prepare_images
\* One round of prepare_images' loop: convert_to_jpg, the inspection, and the
\* transforms it asks for (compression, reshape, downsize, in that order).
prepare_images ==
  /\ pc = "prepare"
  /\ todo # <<>>
  /\ LET slot == Head(todo)
         front_back_image_tuple == paths_by_slot[slot]
         image_path == front_back_image_tuple[2]
         id == image_path[2]
         jpeg_path == convert_to_jpg_path(image_path)
         disk1 == convert_to_jpg_disk(disk, image_path)
         result == images_havent_been_prepared(disk1[jpeg_path])
     IN  /\ converted' = [converted EXCEPT
                            ![id] = IF convert_to_jpg_runs(disk, image_path) THEN @ + 1 ELSE @]
         /\ paths_by_slot' = [paths_by_slot EXCEPT
                                ![slot] = <<front_back_image_tuple[1], jpeg_path>>]
         /\ preparadness_check_result' = [geo |-> disk1[jpeg_path], flags |-> result]
         /\ reshaped' = [reshaped EXCEPT ![id] = IF result[2] THEN @ + 1 ELSE @]
         /\ disk' = IF result[2]
                    THEN [disk1 EXCEPT ![jpeg_path] = cut_and_reshape(@)]
                    ELSE disk1
  /\ todo' = Tail(todo)
  /\ UNCHANGED <<orderVars, number_of_cards_per_file, pc, poolVars, i, pdf, file_num,
                 saved, outcome>>

\* ------------------------------------------------------------------ layout
\* generate_pdf / generate_pdf_a3: a document without pages.
generate_pdf == [format |-> "card", pages |-> <<>>]
generate_pdf_a3 == [format |-> "A3", pages |-> <<>>]

\* add_image: a new page filled by the image.
add_image(doc, image_path) ==
  [doc EXCEPT !.pages = Append(@, [lines |-> 0,
                                   images |-> <<[img |-> image_path, x |-> 0, y |-> 0]>>])]

\* add_a3_page: a new page with its dashed cut lines: the 4 borders, 2 lines at
\* each of the 5 column boundaries and 2 at each of the 2 row boundaries.
add_a3_page(doc) ==
  [doc EXCEPT !.pages = Append(@, [lines |-> 4 + 2 * 5 + 2 * 2, images |-> <<>>])]

\* pdf.image on the document's current page.
image(doc, image_path, x, y) ==
  [doc EXCEPT !.pages[Len(doc.pages)].images =
                 Append(@, [img |-> image_path, x |-> x, y |-> y])]

\* save_file: pdf.output under the current file number.
save_file == Append(saved, [num |-> file_num, pages |-> pdf.pages])

\* The file is rolled over one slot too early.
StartsNextFileEarly(slot) == slot # 0 /\ (slot + 1) % number_of_cards_per_file = 0

\* export: "elif slot % self.number_of_cards_per_file == 0"
StartsNextFile(slot) == slot # 0 /\ slot % number_of_cards_per_file = 0

\* The two faces of a slot added front first.
SlotPagesFrontFirst(doc, tuple) == add_image(add_image(doc, tuple[2]), tuple[1])

\* export: add_image(back_path) then add_image(front_path)
SlotPages(doc, tuple) == add_image(add_image(doc, tuple[1]), tuple[2])

\* One round of export's loop. A slot other than 0 met before any document was
\* generated calls a method of None.
export ==
  /\ pc = "export"
  /\ todo # <<>>
  /\ LET slot == Head(todo)
     IN  IF slot # 0 /\ pdf = NoPdf
         THEN /\ pc' = "error"
              /\ outcome' = "AttributeError"
              /\ UNCHANGED <<todo, pdf, file_num, saved>>
         ELSE /\ saved' = IF StartsNextFile(slot) THEN save_file ELSE saved
              /\ file_num' = IF StartsNextFile(slot) THEN file_num + 1 ELSE file_num
              /\ pdf' = SlotPages(IF slot = 0 \/ StartsNextFile(slot)
                                  THEN generate_pdf ELSE pdf,
                                  paths_by_slot[slot])
              /\ todo' = Tail(todo)
              /\ UNCHANGED <<pc, outcome>>
  /\ UNCHANGED <<orderVars, number_of_cards_per_file, poolVars, disk, paths_by_slot,
                 i, condVars>>

\* export's save_file after the loop, and the end of execute.
export_save ==
  /\ pc = "export"
  /\ todo = <<>>
  /\ IF pdf = NoPdf
     THEN /\ pc' = "error"
          /\ outcome' = "AttributeError"
          /\ UNCHANGED saved
     ELSE /\ pc' = "done"
          /\ outcome' = "ok"
          /\ saved' = save_file
  /\ UNCHANGED <<orderVars, number_of_cards_per_file, poolVars, disk, paths_by_slot,
                 todo, i, pdf, file_num, condVars>>

\* The row of position k without the wrap at the end of a sheet.
A3RowNoWrap(k) == k \div GridCols

\* int(i / 6 % 3): i / 6 modulo 3 is (i mod 18) / 6, truncated.
A3Row(k) == (k % GridCells) \div GridCols

\* x = left + (i % 6) * image_w + (i % 6) * gap, in half millimetres
A3X(k) == 2 * left + (k % GridCols) * (2 * image_w) + (k % GridCols) * gap2

\* y = top + int(i / 6 % 3) * image_h + int(i / 6 % 3) * gap, in half millimetres
A3Y(k) == 2 * top + A3Row(k) * (2 * image_h) + A3Row(k) * gap2

\* export_a3 up to its loop: the document and its first page.
export_a3_begin ==
  /\ pc = "prepare"
  /\ todo = <<>>
  /\ pdf' = add_a3_page(generate_pdf_a3)
  /\ i' = 0
  /\ todo' = sorted(DOMAIN paths_by_slot)
  /\ pc' = "export_a3"
  /\ UNCHANGED <<orderVars, number_of_cards_per_file, poolVars, disk, paths_by_slot,
                 file_num, saved, condVars, outcome>>

\* One round of export_a3's loop.
export_a3 ==
  /\ pc = "export_a3"
  /\ todo # <<>>
  /\ LET slot == Head(todo)
         image_paths_tuple == paths_by_slot[slot]
         doc == IF i > 0 /\ i % GridCells = 0 THEN add_a3_page(pdf) ELSE pdf
     IN  pdf' = image(doc, image_paths_tuple[2], A3X(i), A3Y(i))
  /\ i' = i + 1
  /\ todo' = Tail(todo)
  /\ UNCHANGED <<orderVars, number_of_cards_per_file, pc, poolVars, disk,
                 paths_by_slot, file_num, saved, condVars, outcome>>

\* export_a3's save_file after the loop, and the end of execute.
export_a3_save ==
  /\ pc = "export_a3"
  /\ todo = <<>>
  /\ saved' = save_file
  /\ pc' = "done"
  /\ outcome' = "ok"
  /\ UNCHANGED <<orderVars, number_of_cards_per_file, poolVars, disk, paths_by_slot,
                 todo, i, pdf, file_num, condVars>>

Next ==
  \/ download_images
  \/ FetchStart
  \/ \E c \in Cards : FetchFinish(c)
  \/ download_and_collect_images
  \/ execute
  \/ prepare_images
  \/ export
  \/ export_save
  \/ export_a3_begin
  \/ export_a3
  \/ export_a3_save

Spec == Init /\ [][Next]_vars

\* ------------------------------------------------------------- properties
NumSlots == Cardinality(DOMAIN paths_by_slot)
Contiguous == DOMAIN paths_by_slot = 0..(NumSlots - 1)
Ceil(n, d) == (n + d - 1) \div d
SequentialDone == pc = "done" /\ ~separate_faces
GridDone == pc = "done" /\ separate_faces
SavedNumbers == {saved[k].num : k \in 1..Len(saved)}

\* C1: a sequential export of the contiguous slots 0..n-1, n >= 1, with N cards
\* per file makes exactly ceil(n / N) saves, and the k-th of them is under the
\* number k: the numbers are 1..ceil(n / N), each used once.
C1_DocumentCount ==
  (SequentialDone /\ Contiguous /\ NumSlots >= 1) =>
    /\ Len(saved) = Ceil(NumSlots, number_of_cards_per_file)
    /\ \A k \in 1..Len(saved) : saved[k].num = k

C1_Witness ==
  /\ SequentialDone /\ Contiguous
  /\ NumSlots % number_of_cards_per_file # 0
  /\ Len(saved) >= 2

\* C2: in the grid layout the front of the i-th placed slot (ascending slot
\* order, i from 0) is on sheet page floor(i / 18), in column i mod 6 and row
\* floor(i / 6) mod 3, at x = left + col * (image_w + gap) and
\* y = top + row * (image_h + gap) (here in half millimetres).
C2_GridPlacement ==
  GridDone =>
    /\ Len(saved) = 1
    /\ \A k \in 0..(NumSlots - 1) :
         LET slot == sorted(DOMAIN paths_by_slot)[k + 1]
             col == k % 6
             row == (k \div 6) % 3
             page == (k \div 18) + 1
         IN  /\ page <= Len(saved[1].pages)
             /\ \E j \in 1..Len(saved[1].pages[page].images) :
                  saved[1].pages[page].images[j] =
                    [img |-> paths_by_slot[slot][2],
                     x |-> 2 * left + col * (2 * image_w + gap2),
                     y |-> 2 * top + row * (2 * image_h + gap2)]

C2_Witness == GridDone /\ NumSlots >= 37 /\ Len(saved) = 1 /\ Len(saved[1].pages) = 3

\* C3: a slot whose front or resolved back failed to download is left out of
\* the documents: no saved page shows an image whose download failed.
C3_FailedSlotsExcluded ==
  pc = "done" =>
    \A k \in 1..Len(saved) : \A j \in 1..Len(saved[k].pages) :
    \A m \in 1..Len(saved[k].pages[j].images) :
      LET img == saved[k].pages[j].images[m].img
      IN  fetched[<<img[1], img[2]>>] = "ok"

\* C4: with no slot to lay out, both layouts end in an error (the claim's
\* LayoutError; any exception is taken for it here) and save no document.
C4_EmptyInputFails ==
  (pc \in {"done", "error"} /\ DOMAIN fronts = {}) =>
    (pc = "error" /\ saved = <<>>)

\* C5: a resource two distinct slots refer to is downloaded once and no
\* transform is applied to it more than once, and both slots end with the same
\* path.
C5_SharedResourceOnce ==
  pc = "done" =>
    \A s1 \in DOMAIN paths_by_slot : \A s2 \in DOMAIN paths_by_slot \ {s1} :
      /\ (fronts[s1] = fronts[s2] /\ fetched[FrontCard(fronts[s1])] = "ok") =>
           /\ fetchCount[FrontCard(fronts[s1])] = 1
           /\ converted[fronts[s1]] <= 1
           /\ reshaped[fronts[s1]] <= 1
           /\ paths_by_slot[s1][2] = paths_by_slot[s2][2]
      /\ (s1 \in DOMAIN backs /\ s2 \in DOMAIN backs /\ backs[s1] = backs[s2]) =>
           /\ fetchCount[BackCard(backs[s1])] = 1
           /\ paths_by_slot[s1][1] = paths_by_slot[s2][1]

\* The slots prepare_images has already gone through.
Conditioned ==
  IF pc = "prepare" THEN DOMAIN paths_by_slot \ {todo[k] : k \in 1..Len(todo)}
  ELSE IF pc \in {"export_a3", "done"} /\ separate_faces THEN DOMAIN paths_by_slot
  ELSE {}

\* C6: once prepare_images has conditioned a downloaded front, its path is a jpg
\* and a new inspection finds no reshape needed, so that a second conditioning
\* converts and transforms nothing.
C6_ConditioningIdempotent ==
  \A s \in Conditioned :
    fetched[FrontCard(fronts[s])] = "ok" =>
      /\ paths_by_slot[s][2][3] = "jpg"
      /\ ~convert_to_jpg_runs(disk, paths_by_slot[s][2])
      /\ images_havent_been_prepared(disk[paths_by_slot[s][2]]) = <<FALSE, FALSE, FALSE>>

\* t is n / d rounded to one decimal, in tenths (an exact half goes to the even
\* tenth, as Python's round does).
NearestTenth(n, d, t) ==
  \/ 2 * Abs(10 * n - d * t) < d
  \/ 2 * Abs(10 * n - d * t) = d /\ t % 2 = 0

\* C7: for every inspected geometry (w, h), need_reshape is false exactly when
\* w / 63 and h / 88 round to the same one-decimal number; 630 x 880 needs no
\* reshape and 600 x 880 needs one.
C7_ReshapeDetection ==
  LET r == preparadness_check_result
  IN  (r # NotInspected /\ r.geo # NoFile) =>
        /\ r.flags[2] = ~(\E t \in 0..((10 * r.geo[1]) \div 63 + 1) :
                            NearestTenth(r.geo[1], 63, t) /\ NearestTenth(r.geo[2], 88, t))
        /\ r.geo = <<630, 880>> => r.flags[2] = FALSE
        /\ r.geo = <<600, 880>> => r.flags[2] = TRUE

C7_Witness ==
  /\ preparadness_check_result # NotInspected
  /\ preparadness_check_result.geo = <<630, 880>>
  /\ preparadness_check_result.flags[2] = FALSE

\* C8: every slot with a front is resolved to (its own back if it names one,
\* else the order's default back, its front), whatever backs the other slots
\* name.
C8_BackResolution ==
  (pc = "collected" \/ outcome = "KeyError") =>
    \A s \in DOMAIN fronts :
      /\ s \in DOMAIN paths_by_slot
      /\ paths_by_slot[s] =
           <<BackPath(IF s \in DOMAIN backs THEN backs[s] ELSE DefaultBack),
             FrontPath(fronts[s])>>

RECURSIVE ExpectedPages(_)
\* back(0), front(0), ..., back(n-1), front(n-1)
ExpectedPages(n) ==
  IF n = 0 THEN <<>>
  ELSE ExpectedPages(n - 1) \o <<paths_by_slot[n - 1][1], paths_by_slot[n - 1][2]>>

DocNumbered(k) == CHOOSE d \in {saved[j] : j \in 1..Len(saved)} : d.num = k

\* C9: in a sequential export of the contiguous slots 0..n-1 the pages of the
\* saved documents, taken in the order of the documents' numbers, show
\* back(0), front(0), ..., back(n-1), front(n-1), one image per page, and every
\* document but the last has 2 N pages.
C9_PageSequence ==
  (SequentialDone /\ Contiguous /\ NumSlots >= 1) =>
    /\ SavedNumbers = 1..Len(saved)
    /\ Flatten([k \in 1..Len(saved) |->
                  [j \in 1..Len(DocNumbered(k).pages) |->
                     DocNumbered(k).pages[j].images[1].img]]) = ExpectedPages(NumSlots)
    /\ \A k \in 1..Len(saved) : \A j \in 1..Len(DocNumbered(k).pages) :
         Len(DocNumbered(k).pages[j].images) = 1
    /\ \A k \in 1..(Len(saved) - 1) :
         Len(DocNumbered(k).pages) = 2 * number_of_cards_per_file

C9_Witness ==
  /\ SequentialDone /\ Contiguous
  /\ Len(saved) >= 2
  /\ Len(saved[Len(saved)].pages) < 2 * number_of_cards_per_file
  /\ \E s \in DOMAIN paths_by_slot : paths_by_slot[s][1] # paths_by_slot[s][2]

\* C10: paths_by_slot is built, and conditioning and layout run, only when every
\* download handed to the pool has ended (well or not): past the download
\* phase no download is waiting or running.
C10_AcquisitionBarrier ==
  pc \notin {"init", "download"} =>
    /\ queue = <<>>
    /\ running = {}
    /\ \A c \in Cards : fetched[c] \in {"ok", "failed"}

C10_Witness ==
  /\ pc = "collected"
  /\ Cardinality(Cards) > THREADS
  /\ \E c \in Cards : fetched[c] = "failed"

====
